---- MODULE Spec2Model ----
(***************************************************************************)
(* Model of PyQtGraphing.py: the SlidingWindow buffer, the MeasurementThread*)
(* sampling loop, the two graph widgets that subscribe to its measurement  *)
(* signal, and the Application that starts the thread and joins it in       *)
(* aboutToQuitHandler;                                                      *)
(* and of SimplePyQtDemo.py: the ControlWidget with its timer and buttons.   *)
(*                                                                         *)
(* The specifications share the variables:                                 *)
(*   SWSpec   - one SlidingWindow object driven directly: it is constructed *)
(*              with any (window_size, buffer_size) and then appended to    *)
(*              and read;                                                   *)
(*   Spec     - the running application: worker thread, queued signal       *)
(*              delivery to the two widgets on the main thread, shutdown;   *)
(*   FairSpec - Spec with the scheduling fairness of the two threads;       *)
(*   LongSpec - the application in a run that overfills the views' default  *)
(*              buffers, every sample with the same payload;                *)
(*   DemoSpec - the timer demo: Start and Stop clicks and timer timeouts.   *)
(***************************************************************************)
EXTENDS Integers, Sequences, FiniteSets, TLC

VARIABLES
    \* ---- the stand-alone SlidingWindow of SWSpec
    sw,          \* the object: [data, n, window_size]
    swStatus,    \* "none" (not constructed), "live", "rejected" (constructor raised)
    swExc,       \* what the constructor or the last append raised, or "none"
    swHist,      \* history: the values passed to append, in call order
    swLastWindow,\* what the last window() call returned
    swCompactions,\* history: for each compacting append, its position in swHist
    swFresh,     \* history: swLastWindow is a window() result with no append since
    \* ---- the application of Spec
    wpc,         \* MeasurementThread.run position
    interruptionRequested, \* QThread's interruption flag
    sample,      \* the (timestamp, value) evaluated for the pending emit
    emitted,     \* history: the samples emitted, in order
    queue,       \* the main thread's posted meta-call events, FIFO
    app,         \* the main thread: "exec", "quitting", "waiting", "closed"
    frames,      \* handleMeasurement activations in progress (a call stack)
    xy,          \* view -> its SlidingWindow
    drawn,       \* view -> the window its plot was last given
    handled,     \* history: view -> the samples its handleMeasurement received
    writers,     \* history: view -> the threads that ran its handleMeasurement
    emitsAfterFlag,  \* history: emits made since the flag was set
    sleepsAfterFlag, \* history: sleeps finished since the flag was set
    budget,      \* the number of samples the worker emits in the run
    \* ---- SimplePyQtDemo.py (DemoSpec)
    counter,     \* ControlWidget.counter
    startEnabled,\* start_button.isEnabled()
    stopEnabled, \* stop_button.isEnabled()
    timerActive, \* timer.isActive()
    viewText     \* the text of each of the three ViewWidgets

swVars == <<sw, swStatus, swExc, swHist, swLastWindow, swCompactions, swFresh>>
appVars == <<wpc, interruptionRequested, sample, emitted, queue, app, frames, xy,
             drawn, handled, writers, emitsAfterFlag, sleepsAfterFlag, budget>>
demoVars == <<counter, startEnabled, stopEnabled, timerActive, viewText>>
vars == <<swVars, appVars, demoVars>>

----------------------------------------------------------------------------
\* Bounds of the model.

\* the largest window_size tried in SWSpec
MaxWindow == 3
\* the largest explicit buffer_size tried in SWSpec
MaxBuffer == 6
\* the number of appends made to the stand-alone SlidingWindow
MaxAppends == 9
\* the number of samples the worker emits in Spec
MaxSamples == 3
\* the largest sliding_window_size the Application is constructed with
MaxAppWindow == 2
\* the number of timer timeouts in DemoSpec
MaxCounter == 50

\* Program constant: buffer_size defaults to 10 * window_size.
BufferFactor == 10

\* the payloads of a sample: psutil.cpu_percent() is a percentage
\* (the two ends of its range)
CpuValues == {0, 100}
\* what np.empty leaves in a cell: arbitrary bits, which may look like a sample
Garbage == {<<0, 0>>, <<1, 100>>}

Min(a, b) == IF a < b THEN a ELSE b
Max(a, b) == IF a > b THEN a ELSE b

----------------------------------------------------------------------------
\* Python / numpy slicing.

\* A slice bound i on a sequence of length len: negative counts from the end,
\* and the result is clamped to 0..len.
PyBound(i, len) ==
    IF i < 0 THEN Max(i + len, 0) ELSE Min(i, len)

\* data[start:stop] as the half-open range <<lo, hi>> of 0-based positions.
PySlice(len, start, stop) ==
    LET lo == PyBound(start, len)
        hi == PyBound(stop, len)
    IN <<lo, Max(lo, hi)>>

SliceLen(s) == s[2] - s[1]

\* The elements of a slice, oldest first.
SliceOf(data, s) == [i \in 1..SliceLen(s) |-> data[s[1] + i]]

\* numpy: a[dst] = a[src] is allowed when the shapes agree or the source has
\* one element (broadcast); otherwise ValueError.
CanAssign(dst, src) == SliceLen(src) = SliceLen(dst) \/ SliceLen(src) = 1

\* a[dst] = a[src], the source read before anything is written.
SliceAssign(data, dst, src) ==
    [i \in 1..Len(data) |->
        IF i - 1 >= dst[1] /\ i - 1 < dst[2]
        THEN data[src[1] + (IF SliceLen(src) = 1 THEN 0 ELSE i - 1 - dst[1]) + 1]
        ELSE data[i]]

----------------------------------------------------------------------------
\* class SlidingWindow

\* buffer_size = 10 * window_size when none is given.
BufferSize(window_size, given, buffer_size) ==
    IF given THEN buffer_size ELSE BufferFactor * window_size

\* np.empty(buffer_size) raises ValueError for a negative size and nothing else
\* in __init__ looks at window_size.
SlidingWindow_rejects(window_size, given, buffer_size) ==
    BufferSize(window_size, given, buffer_size) < 0

\* __init__: the object, its cells uninitialised (fill).
SlidingWindow_init(window_size, given, buffer_size, fill) ==
    [data |-> [i \in 1..BufferSize(window_size, given, buffer_size) |-> fill],
     n |-> 0,
     window_size |-> window_size]

\* a compaction that keeps window_size entries
CopySize_whole(self) == self.window_size

\* copy_size = self.window_size - 1
CopySize(self) == self.window_size - 1

\* append finds the buffer full.
IsFull(self) == self.n = Len(self.data)

\* self.data[:copy_size] and self.data[-copy_size:]
CopyDst(self) == PySlice(Len(self.data), 0, CopySize(self))
CopySrc(self) == PySlice(Len(self.data), 0 - CopySize(self), Len(self.data))

\* a compaction that moves nothing
CompactedData_nocopy(self) == self.data

\* self.data[:copy_size] = self.data[-copy_size:]
CompactedData(self) == SliceAssign(self.data, CopyDst(self), CopySrc(self))

\* append(value): the object afterwards and what the call raised.
SlidingWindow_append(self, value) ==
    LET len == Len(self.data)
        full == IsFull(self)
        data1 == IF full THEN CompactedData(self) ELSE self.data
        n1 == IF full THEN CopySize(self) ELSE self.n
        pos == IF n1 < 0 THEN n1 + len ELSE n1
    IN IF full /\ ~CanAssign(CopyDst(self), CopySrc(self))
       THEN [self |-> self, exc |-> "ValueError"]
       ELSE IF pos < 0 \/ pos >= len
       THEN [self |-> [self EXCEPT !.data = data1, !.n = n1], exc |-> "IndexError"]
       ELSE [self |-> [self EXCEPT !.data = [data1 EXCEPT ![pos + 1] = value],
                                   !.n = n1 + 1],
             exc |-> "none"]

\* window(): self.data[max(0, self.n - self.window_size):self.n]
SlidingWindow_window(self) ==
    SliceOf(self.data,
            PySlice(Len(self.data), Max(0, self.n - self.window_size), self.n))

----------------------------------------------------------------------------
\* SWSpec: one SlidingWindow, constructed and then used.

NoObject == [data |-> <<>>, n |-> 0, window_size |-> 0]

SWIdle ==
    /\ sw = NoObject
    /\ swStatus = "none"
    /\ swExc = "none"
    /\ swHist = <<>>
    /\ swLastWindow = <<>>
    /\ swCompactions = <<>>
    /\ swFresh = FALSE

\* SlidingWindow(window_size, dtype[, buffer_size])
Construct(window_size, given, buffer_size, fill) ==
    /\ swStatus = "none"
    /\ IF SlidingWindow_rejects(window_size, given, buffer_size)
       THEN /\ swStatus' = "rejected"
            /\ swExc' = "ValueError"
            /\ sw' = sw
       ELSE /\ swStatus' = "live"
            /\ swExc' = "none"
            /\ sw' = SlidingWindow_init(window_size, given, buffer_size, fill)
    /\ UNCHANGED <<appVars, demoVars, swHist, swLastWindow, swCompactions, swFresh>>

\* sw.append((timestamp, value)) with the next timestamp
DoAppend(value) ==
    /\ swStatus = "live"
    /\ Len(swHist) < MaxAppends
    /\ LET v == <<Len(swHist) + 1, value>>
           r == SlidingWindow_append(sw, v)
       IN /\ sw' = r.self
          /\ swExc' = r.exc
          /\ swHist' = Append(swHist, v)
          /\ swCompactions' = IF IsFull(sw) THEN Append(swCompactions, Len(swHist) + 1)
                                            ELSE swCompactions
    /\ swFresh' = FALSE
    /\ UNCHANGED <<appVars, demoVars, swStatus, swLastWindow>>

\* a window() that hands out the entries and forgets them
DoWindow_consuming ==
    /\ swStatus = "live"
    /\ swLastWindow' = SlidingWindow_window(sw)
    /\ swFresh' = TRUE
    /\ sw' = [sw EXCEPT !.n = Max(0, sw.n - sw.window_size)]
    /\ UNCHANGED <<appVars, demoVars, swStatus, swExc, swHist, swCompactions>>

\* sw.window()
DoWindow ==
    /\ swStatus = "live"
    /\ swLastWindow' = SlidingWindow_window(sw)
    /\ swFresh' = TRUE
    /\ UNCHANGED <<appVars, demoVars, sw, swStatus, swExc, swHist, swCompactions>>

SWNext ==
    \/ \E w \in (0 - 1)..MaxWindow, given \in BOOLEAN, b \in (0 - 1)..MaxBuffer,
          fill \in Garbage : Construct(w, given, b, fill)
    \/ \E value \in CpuValues : DoAppend(value)
    \/ DoWindow

----------------------------------------------------------------------------
\* SimplePyQtDemo.py: the ControlWidget and the three ViewWidgets connected to
\* its valueUpdated signal.

\* the ViewWidgets main() makes and connects
ViewWidgets == 1..3

\* ControlWidget.__init__ and ViewWidget.__init__: counter 0, the timer made
\* and not started, Stop disabled, each view showing its placeholder.
DemoIdle ==
    /\ counter = 0
    /\ startEnabled = TRUE
    /\ stopEnabled = FALSE
    /\ timerActive = FALSE
    /\ viewText = [i \in ViewWidgets |-> "(no value received yet)"]

\* start_button.clicked (only an enabled button can be clicked)
startButtonClicked ==
    /\ startEnabled
    /\ startEnabled' = FALSE
    /\ stopEnabled' = TRUE
    /\ timerActive' = TRUE
    /\ UNCHANGED <<swVars, appVars, counter, viewText>>

\* a Stop handler that leaves the timer running
stopButtonClicked_timerLeftRunning ==
    /\ stopEnabled
    /\ startEnabled' = TRUE
    /\ stopEnabled' = FALSE
    /\ UNCHANGED <<swVars, appVars, counter, viewText, timerActive>>

\* stop_button.clicked
stopButtonClicked ==
    /\ stopEnabled
    /\ startEnabled' = TRUE
    /\ stopEnabled' = FALSE
    /\ timerActive' = FALSE
    /\ UNCHANGED <<swVars, appVars, counter, viewText>>

\* ViewWidget.setValue: self.setText("{}".format(value))
setValue(value) == ToString(value)

\* timer.timeout of the active timer: the counter goes up by one and
\* valueUpdated.emit calls setValue of every connected view before it returns.
timerTimeout ==
    /\ timerActive
    /\ counter < MaxCounter
    /\ counter' = counter + 1
    /\ viewText' = [i \in ViewWidgets |-> setValue(counter')]
    /\ UNCHANGED <<swVars, appVars, startEnabled, stopEnabled, timerActive>>

----------------------------------------------------------------------------
\* The application.

\* The widgets, in the order Application.__init__ constructs and connects them.
ViewOrder == <<"mpl", "pg">>
Views == {"mpl", "pg"}

\* The thread an object lives in: both widgets are made by the main thread.
ReceiverThread(v) == "main"

\* a connection that calls the slot in the emitting thread
Delivery_direct(v, emitter) == "direct"

\* measurement.connect(self.handleMeasurement): an auto connection, decided at
\* emit time by comparing the emitting thread with the receiver's thread.
Delivery(v, emitter) ==
    IF emitter = ReceiverThread(v) THEN "direct" ELSE "queued"

\* QThread: run() has returned or raised.
ThreadFinished == wpc \in {"finished", "failed"}

\* an event loop that goes on dispatching after exec() has returned
EventLoopRuns_afterQuit == app \in {"exec", "closed"}

\* app.exec(): posted events are dispatched while the event loop runs; the
\* loop has exited when aboutToQuit is emitted.
EventLoopRuns == app = "exec"

AppIdle ==
    /\ wpc = "test"
    /\ interruptionRequested = FALSE
    /\ sample = <<0, 0>>
    /\ emitted = <<>>
    /\ queue = <<>>
    /\ app = "exec"
    /\ frames = <<>>
    /\ xy = [v \in Views |-> NoObject]
    /\ drawn = [v \in Views |-> <<>>]
    /\ handled = [v \in Views |-> <<>>]
    /\ writers = [v \in Views |-> {}]
    /\ emitsAfterFlag = 0
    /\ sleepsAfterFlag = 0
    /\ budget = 0

\* Application(measurement_interval, sliding_window_size): both widgets made,
\* each with its own SlidingWindow and an empty plot, and the thread started.
Init ==
    /\ SWIdle
    /\ DemoIdle
    /\ wpc = "test"
    /\ interruptionRequested = FALSE
    /\ sample = <<0, 0>>
    /\ emitted = <<>>
    /\ queue = <<>>
    /\ app = "exec"
    /\ frames = <<>>
    /\ \E w \in 1..MaxAppWindow, fill \in [Views -> Garbage] :
          xy = [v \in Views |-> SlidingWindow_init(w, FALSE, 0, fill[v])]
    /\ drawn = [v \in Views |-> <<>>]
    /\ handled = [v \in Views |-> <<>>]
    /\ writers = [v \in Views |-> {}]
    /\ emitsAfterFlag = 0
    /\ sleepsAfterFlag = 0
    /\ budget = MaxSamples

\* The same application in a run long enough to fill the views' buffers: the
\* worker emits two samples more than the default buffer holds.
LongInit ==
    /\ SWIdle
    /\ DemoIdle
    /\ wpc = "test"
    /\ interruptionRequested = FALSE
    /\ sample = <<0, 0>>
    /\ emitted = <<>>
    /\ queue = <<>>
    /\ app = "exec"
    /\ frames = <<>>
    /\ \E w \in 1..MaxAppWindow, fill \in [Views -> Garbage] :
          /\ xy = [v \in Views |-> SlidingWindow_init(w, FALSE, 0, fill[v])]
          /\ budget = BufferFactor * w + 2
    /\ drawn = [v \in Views |-> <<>>]
    /\ handled = [v \in Views |-> <<>>]
    /\ writers = [v \in Views |-> {}]
    /\ emitsAfterFlag = 0
    /\ sleepsAfterFlag = 0

SWInit == SWIdle /\ AppIdle /\ DemoIdle

\* ---- MeasurementThread.run, in the worker thread

\* a loop that looks at the flag only before every second iteration
WorkerSleep_skipTest ==
    /\ wpc = "sleep"
    /\ wpc' = IF Len(emitted) % 2 = 1 /\ Len(emitted) < budget
              THEN "read" ELSE "test"
    /\ sleepsAfterFlag' = IF interruptionRequested THEN sleepsAfterFlag + 1
                                                   ELSE sleepsAfterFlag
    /\ UNCHANGED <<swVars, demoVars, budget, interruptionRequested, sample, emitted, queue, app, frames, xy,
                   drawn, handled, writers, emitsAfterFlag>>

\* a loop that swallows the exception of a failed read and goes on
WorkerTest_afterFailure ==
    /\ wpc \in {"test", "failed"}
    /\ IF interruptionRequested
       THEN wpc' = "finished"
       ELSE /\ Len(emitted) < budget
            /\ wpc' = "read"
    /\ UNCHANGED <<swVars, demoVars, budget, interruptionRequested, sample, emitted, queue, app, frames, xy,
                   drawn, handled, writers, emitsAfterFlag, sleepsAfterFlag>>

\* while not self.isInterruptionRequested():
WorkerTest ==
    /\ wpc = "test"
    /\ IF interruptionRequested
       THEN wpc' = "finished"
       ELSE /\ Len(emitted) < budget
            /\ wpc' = "read"
    /\ UNCHANGED <<swVars, demoVars, budget, interruptionRequested, sample, emitted, queue, app, frames, xy,
                   drawn, handled, writers, emitsAfterFlag, sleepsAfterFlag>>

\* time.time(), psutil.cpu_percent(): the arguments of the emit
WorkerRead(value) ==
    /\ wpc = "read"
    /\ sample' = <<Len(emitted) + 1, value>>
    /\ wpc' = "emit"
    /\ UNCHANGED <<swVars, demoVars, budget, interruptionRequested, emitted, queue, app, frames, xy, drawn,
                   handled, writers, emitsAfterFlag, sleepsAfterFlag>>

\* psutil.cpu_percent() raises: the exception leaves run() and the thread ends.
WorkerReadFails ==
    /\ wpc = "read"
    /\ wpc' = "failed"
    /\ UNCHANGED <<swVars, demoVars, budget, interruptionRequested, sample, emitted, queue, app, frames, xy,
                   drawn, handled, writers, emitsAfterFlag, sleepsAfterFlag>>

\* psutil.cpu_percent() never returns.
WorkerReadBlocks ==
    /\ wpc = "read"
    /\ wpc' = "blocked"
    /\ UNCHANGED <<swVars, demoVars, budget, interruptionRequested, sample, emitted, queue, app, frames, xy,
                   drawn, handled, writers, emitsAfterFlag, sleepsAfterFlag>>

\* a thread started before the second widget has connected: the first emit
\* reaches the first widget only
Posted_startedEarly(s, emitter) ==
    IF s[1] = 1
    THEN <<[view |-> ViewOrder[1], sample |-> s]>>
    ELSE [i \in 1..Len(ViewOrder) |-> [view |-> ViewOrder[i], sample |-> s]]

\* The meta-call events one emit posts, in connection order.
Posted(s, emitter) ==
    LET ev(i) == [view |-> ViewOrder[i], sample |-> s]
        F[i \in 0..Len(ViewOrder)] ==
            IF i = 0 THEN <<>>
            ELSE IF Delivery(ViewOrder[i], emitter) = "queued"
                 THEN Append(F[i - 1], ev(i)) ELSE F[i - 1]
    IN F[Len(ViewOrder)]

\* an emit that returns only when the receivers have nothing pending
WorkerEmit_blocking ==
    /\ wpc = "emit"
    /\ queue = <<>>
    /\ emitted' = Append(emitted, sample)
    /\ queue' = queue \o Posted(sample, "worker")
    /\ wpc' = "sleep"
    /\ emitsAfterFlag' = IF interruptionRequested THEN emitsAfterFlag + 1
                                                  ELSE emitsAfterFlag
    /\ UNCHANGED <<swVars, demoVars, budget, interruptionRequested, sample, app, frames, xy, drawn, handled,
                   writers, sleepsAfterFlag>>

\* self.measurement.emit(...): a queued connection posts an event to the
\* receiver's thread and returns; a direct one runs handleMeasurement (append,
\* then updateGraph) in the emitting thread before emit returns.
WorkerEmit ==
    /\ wpc = "emit"
    /\ emitted' = Append(emitted, sample)
    /\ queue' = queue \o Posted(sample, "worker")
    /\ LET direct == {v \in Views : Delivery(v, "worker") = "direct"}
           r == [v \in Views |-> SlidingWindow_append(xy[v], sample)]
       IN /\ xy' = [v \in Views |-> IF v \in direct THEN r[v].self ELSE xy[v]]
          /\ drawn' = [v \in Views |->
                          IF v \in direct /\ r[v].exc = "none"
                          THEN SlidingWindow_window(r[v].self) ELSE drawn[v]]
          /\ handled' = [v \in Views |->
                          IF v \in direct THEN Append(handled[v], sample)
                                          ELSE handled[v]]
          /\ writers' = [v \in Views |->
                          IF v \in direct THEN writers[v] \cup {"worker"}
                                          ELSE writers[v]]
    /\ wpc' = "sleep"
    /\ emitsAfterFlag' = IF interruptionRequested THEN emitsAfterFlag + 1
                                                  ELSE emitsAfterFlag
    /\ UNCHANGED <<swVars, demoVars, budget, interruptionRequested, sample, app, frames, sleepsAfterFlag>>

\* time.sleep(self.measurement_interval), then back to the loop test
WorkerSleep ==
    /\ wpc = "sleep"
    /\ wpc' = "test"
    /\ sleepsAfterFlag' = IF interruptionRequested THEN sleepsAfterFlag + 1
                                                   ELSE sleepsAfterFlag
    /\ UNCHANGED <<swVars, demoVars, budget, interruptionRequested, sample, emitted, queue, app, frames, xy,
                   drawn, handled, writers, emitsAfterFlag>>

\* ---- the main thread

\* The event loop takes the next posted event and calls the slot.
Dispatch ==
    /\ EventLoopRuns
    /\ frames = <<>>
    /\ queue # <<>>
    /\ LET e == Head(queue)
       IN /\ frames' = <<[view |-> e.view, sample |-> e.sample, pc |-> "append",
                          thread |-> "main"]>>
          /\ handled' = [handled EXCEPT ![e.view] = Append(@, e.sample)]
          /\ writers' = [writers EXCEPT ![e.view] = @ \cup {"main"}]
    /\ queue' = Tail(queue)
    /\ UNCHANGED <<swVars, demoVars, budget, wpc, interruptionRequested, sample, emitted, app, xy, drawn,
                   emitsAfterFlag, sleepsAfterFlag>>

\* widgets that share one SlidingWindow object
HandlerAppend_shared ==
    /\ frames # <<>>
    /\ frames[Len(frames)].pc = "append"
    /\ LET f == frames[Len(frames)]
           r == SlidingWindow_append(xy[f.view], f.sample)
       IN /\ xy' = [v \in Views |-> r.self]
          /\ frames' = IF r.exc = "none"
                       THEN [frames EXCEPT ![Len(frames)].pc = "updateGraph"]
                       ELSE SubSeq(frames, 1, Len(frames) - 1)
    /\ UNCHANGED <<swVars, demoVars, budget, wpc, interruptionRequested, sample, emitted, queue, app, drawn,
                   handled, writers, emitsAfterFlag, sleepsAfterFlag>>

\* handleMeasurement: self.xy.append((timestamp, value)); an exception leaves
\* the slot before updateGraph and the event loop goes on.
HandlerAppend ==
    /\ frames # <<>>
    /\ frames[Len(frames)].pc = "append"
    /\ LET f == frames[Len(frames)]
           r == SlidingWindow_append(xy[f.view], f.sample)
       IN /\ xy' = [xy EXCEPT ![f.view] = r.self]
          /\ frames' = IF r.exc = "none"
                       THEN [frames EXCEPT ![Len(frames)].pc = "updateGraph"]
                       ELSE SubSeq(frames, 1, Len(frames) - 1)
    /\ UNCHANGED <<swVars, demoVars, budget, wpc, interruptionRequested, sample, emitted, queue, app, drawn,
                   handled, writers, emitsAfterFlag, sleepsAfterFlag>>

\* handleMeasurement: self.updateGraph(), which gives the plot self.xy.window()
HandlerUpdateGraph ==
    /\ frames # <<>>
    /\ frames[Len(frames)].pc = "updateGraph"
    /\ LET f == frames[Len(frames)]
       IN drawn' = [drawn EXCEPT ![f.view] = SlidingWindow_window(xy[f.view])]
    /\ frames' = SubSeq(frames, 1, Len(frames) - 1)
    /\ UNCHANGED <<swVars, demoVars, budget, wpc, interruptionRequested, sample, emitted, queue, app, xy,
                   handled, writers, emitsAfterFlag, sleepsAfterFlag>>

\* An exit request ends the event loop; aboutToQuit calls aboutToQuitHandler.
ExitRequest ==
    /\ app = "exec"
    /\ frames = <<>>
    /\ app' = "quitting"
    /\ UNCHANGED <<swVars, demoVars, budget, wpc, interruptionRequested, sample, emitted, queue, frames, xy,
                   drawn, handled, writers, emitsAfterFlag, sleepsAfterFlag>>

\* a handler that waits without asking the thread to stop
RequestInterruption_missing ==
    /\ app = "quitting"
    /\ app' = "waiting"
    /\ UNCHANGED <<swVars, demoVars, budget, wpc, interruptionRequested, sample, emitted, queue, frames, xy,
                   drawn, handled, writers, emitsAfterFlag, sleepsAfterFlag>>

\* self.measurement_thread.requestInterruption(): sets the flag of a running
\* thread and does nothing for a finished one.
RequestInterruption ==
    /\ app = "quitting"
    /\ interruptionRequested' = IF ThreadFinished THEN interruptionRequested ELSE TRUE
    /\ app' = "waiting"
    /\ UNCHANGED <<swVars, demoVars, budget, wpc, sample, emitted, queue, frames, xy, drawn, handled, writers,
                   emitsAfterFlag, sleepsAfterFlag>>

\* a handler that goes on without joining the thread
WaitReturn_nojoin ==
    /\ app = "waiting"
    /\ app' = "closed"
    /\ UNCHANGED <<swVars, demoVars, budget, wpc, interruptionRequested, sample, emitted, queue, frames, xy,
                   drawn, handled, writers, emitsAfterFlag, sleepsAfterFlag>>

\* a wait that gives up on a thread that does not come back
WaitReturn_timeout ==
    /\ app = "waiting"
    /\ ThreadFinished \/ wpc = "blocked"
    /\ app' = "closed"
    /\ UNCHANGED <<swVars, demoVars, budget, wpc, interruptionRequested, sample, emitted, queue, frames, xy,
                   drawn, handled, writers, emitsAfterFlag, sleepsAfterFlag>>

\* self.measurement_thread.wait() returns once the thread has finished; the
\* handler returns, exec() returns and main() ends.
WaitReturn ==
    /\ app = "waiting"
    /\ ThreadFinished
    /\ app' = "closed"
    /\ UNCHANGED <<swVars, demoVars, budget, wpc, interruptionRequested, sample, emitted, queue, frames, xy,
                   drawn, handled, writers, emitsAfterFlag, sleepsAfterFlag>>

Worker ==
    \/ WorkerTest
    \/ \E value \in CpuValues : WorkerRead(value)
    \/ WorkerReadFails
    \/ WorkerReadBlocks
    \/ WorkerEmit
    \/ WorkerSleep

Next ==
    \/ WorkerTest
    \/ \E value \in CpuValues : WorkerRead(value)
    \/ WorkerReadFails
    \/ WorkerReadBlocks
    \/ WorkerEmit
    \/ WorkerSleep
    \/ Dispatch
    \/ HandlerAppend
    \/ HandlerUpdateGraph
    \/ ExitRequest
    \/ RequestInterruption
    \/ WaitReturn

Spec == Init /\ [][Next]_vars

\* The worker thread is scheduled while it can run; the main thread goes on
\* with a handler it has entered. An exit request may never come.
FairSpec ==
    /\ Spec
    /\ WF_vars(Worker)
    /\ WF_vars(HandlerAppend \/ HandlerUpdateGraph \/ RequestInterruption
               \/ WaitReturn)

SWSpec == SWInit /\ [][SWNext]_vars

DemoInit == SWIdle /\ AppIdle /\ DemoIdle

DemoNext ==
    \/ startButtonClicked
    \/ stopButtonClicked
    \/ timerTimeout

DemoSpec == DemoInit /\ [][DemoNext]_vars

\* The long run: every metric read that returns gives full load.
LongNext ==
    \/ WorkerTest
    \/ WorkerRead(100)
    \/ WorkerReadFails
    \/ WorkerReadBlocks
    \/ WorkerEmit
    \/ WorkerSleep
    \/ Dispatch
    \/ HandlerAppend
    \/ HandlerUpdateGraph
    \/ ExitRequest
    \/ RequestInterruption
    \/ WaitReturn

LongSpec == LongInit /\ [][LongNext]_vars

----------------------------------------------------------------------------
\* Properties of SlidingWindow (SWSpec).

\* The last k elements of a sequence, oldest first.
LastOf(seq, k) == SubSeq(seq, Len(seq) - k + 1, Len(seq))

\* A valid construction: window_size >= 1 and buffer_size >= window_size.
ValidConstruction ==
    /\ swStatus = "live"
    /\ sw.window_size >= 1
    /\ Len(sw.data) >= sw.window_size

\* C1: after any N appends to a validly constructed SlidingWindow, window()
\* returns the last min(N, window_size) appended values in append order.
C1_WindowIsLastAppended ==
    ValidConstruction =>
        SlidingWindow_window(sw) = LastOf(swHist, Min(Len(swHist), sw.window_size))

\* C2: under valid construction no append raises, and each append stores its
\* value as the newest entry, counted by n.
C2_AppendNeverFails ==
    (ValidConstruction /\ swHist # <<>>) =>
        /\ swExc = "none"
        /\ sw.n >= 1
        /\ sw.data[sw.n] = swHist[Len(swHist)]

\* C14: window() is a pure read: a call changes neither the stored data nor n
\* and returns the current window; a call repeated with no append in between
\* would return what the last one returned; with nothing appended the window
\* is empty.
C14_WindowIsIdempotent ==
    /\ [][swFresh' => (sw' = sw /\ swHist' = swHist
                       /\ swLastWindow' = SlidingWindow_window(sw))]_vars
    /\ [](swFresh => swLastWindow = SlidingWindow_window(sw))
    /\ []((swStatus = "live" /\ swHist = <<>>) => SlidingWindow_window(sw) = <<>>)

C14_Witness ==
    /\ swFresh
    /\ Len(swLastWindow) = 3
    /\ swCompactions # <<>>

\* C15: no SlidingWindow whose window_size exceeds its buffer size exists:
\* the constructor rejects it.
C15_WindowLargerThanBufferRejected ==
    swStatus = "live" => sw.window_size <= Len(sw.data)

\* What an append step of a SlidingWindow with 2 <= window_size <= buffer_size
\* does: sw before, sw' after, swHist' with the value appended.
CompactionStep ==
    LET w == sw.window_size
    IN IF IsFull(sw)
       THEN /\ sw'.n = w
            /\ SubSeq(sw'.data, 1, w) = LastOf(swHist', w)
            /\ SubSeq(sw'.data, 1, w - 1) = SubSeq(sw.data, Len(sw.data) - w + 2,
                                                   Len(sw.data))
            /\ \A i \in (w + 1)..Len(sw.data) : sw'.data[i] = sw.data[i]
       ELSE /\ sw'.n = sw.n + 1
            /\ sw'.data = [sw.data EXCEPT ![sw.n + 1] = swHist'[Len(swHist')]]

\* C16: for 2 <= window_size <= buffer_size an append that finds the buffer
\* full moves the last window_size - 1 entries to the front in order and
\* stores the value after them, leaving n = window_size and the last
\* window_size appended values in front; any other append changes only
\* position n and n. With window_size 3 and buffer_size 6 the first
\* compaction is made by the 7th append and the window is then the appends
\* 5, 6, 7.
C16_CompactionStep ==
    /\ [][(ValidConstruction /\ sw.window_size >= 2 /\ swHist' # swHist)
            => CompactionStep]_vars
    /\ []((ValidConstruction /\ sw.window_size = 3 /\ Len(sw.data) = 6
            /\ Len(swHist) = 7)
            => /\ swCompactions = <<7>>
               /\ SlidingWindow_window(sw) = SubSeq(swHist, 5, 7))

C16_Witness ==
    /\ ValidConstruction
    /\ sw.window_size = 3
    /\ Len(sw.data) = 6
    /\ Len(swHist) = 7
    /\ swCompactions = <<7>>

\* The number of appends from each compacting append to the next.
CompactionGaps ==
    {swCompactions[i + 1] - swCompactions[i] : i \in 1..(Len(swCompactions) - 1)}

\* C17 as stated, where no append raises (window_size >= 2): with
\* window_size < buffer_size, compaction occurs once every
\* buffer_size - window_size appends.
C17_CompactionEveryBMinusW ==
    (ValidConstruction /\ sw.window_size >= 2 /\ sw.window_size < Len(sw.data))
        => CompactionGaps \subseteq {Len(sw.data) - sw.window_size}

\* C17 amended: with window_size < buffer_size, an append compacts exactly
\* when it finds n = buffer_size; for window_size >= 2 the compacting append
\* leaves n = window_size, so the next one comes exactly
\* buffer_size - window_size + 1 appends later; for window_size = 1 it raises
\* and leaves n = buffer_size, so every later append finds the buffer full.
C17_CompactionPeriod ==
    (ValidConstruction /\ sw.window_size < Len(sw.data))
        => CompactionGaps \subseteq
              {IF sw.window_size >= 2 THEN Len(sw.data) - sw.window_size + 1 ELSE 1}

C17_Witness ==
    /\ ValidConstruction
    /\ sw.window_size = 2
    /\ Len(sw.data) = 4
    /\ swCompactions = <<5, 8>>

\* C18: for 1 <= window_size <= buffer_size, 0 <= n <= buffer_size, the
\* buffer keeps its capacity, n >= min(N, window_size) after N appends, and
\* the last min(N, window_size) appended values are at the positions just
\* below n.
C18_CountInvariant ==
    /\ [][swStatus = "live" => Len(sw'.data) = Len(sw.data)]_vars
    /\ [](ValidConstruction =>
            LET k == Min(Len(swHist), sw.window_size)
            IN /\ 0 <= sw.n
               /\ sw.n <= Len(sw.data)
               /\ sw.n >= k
               /\ SubSeq(sw.data, sw.n - k + 1, sw.n) = LastOf(swHist, k))

\* C9: no SlidingWindow with window_size <= 0 exists: the constructor rejects it.
C9_NonPositiveWindowRejected ==
    swStatus = "live" => sw.window_size >= 1

----------------------------------------------------------------------------
\* Properties of the application (Spec, FairSpec).

\* C3: once wait() has returned the worker thread has terminated and no
\* further sample is emitted.
C3_NoEmitAfterJoin ==
    /\ [](app = "closed" => ThreadFinished)
    /\ [][app = "closed" => emitted' = emitted]_vars

C3_Witness ==
    /\ app = "closed"
    /\ wpc = "finished"
    /\ emitsAfterFlag = 1

\* C4: once wait() has returned no handleMeasurement runs and no view's
\* SlidingWindow changes, also when emitted samples are still queued.
C4_NoLateSample ==
    /\ [](app = "closed" => frames = <<>>)
    /\ [][app = "closed" => (handled' = handled /\ xy' = xy /\ frames' = frames)]_vars

C4_Witness ==
    /\ app = "closed"
    /\ queue # <<>>

\* C5: unless the worker blocks for ever in the metric read, an exit request
\* leads to the worker leaving its loop, wait() returning and the application
\* closing; and the application is never closed with the worker still running.
C5_ShutdownTerminates ==
    /\ [](app = "closed" => ThreadFinished)
    /\ \/ <>(wpc = "blocked")
       \/ (app = "quitting") ~> (app = "closed" /\ ThreadFinished)

C5_Witness ==
    /\ app = "closed"
    /\ interruptionRequested
    /\ wpc = "finished"
    /\ Len(emitted) = MaxSamples

\* C6: after the flag is set the worker makes at most one more emit and
\* finishes at most one more sleep.
C6_OneMoreIteration ==
    /\ emitsAfterFlag <= 1
    /\ sleepsAfterFlag <= 1

C6_Witness ==
    /\ wpc = "finished"
    /\ emitsAfterFlag = 1
    /\ sleepsAfterFlag = 1

\* C7: only the main thread runs a view's handleMeasurement (append, window),
\* and at most one handler activation exists at a time.
C7_SingleWriter ==
    /\ \A v \in Views : writers[v] \subseteq {"main"}
    /\ \A i \in 1..Len(frames) : frames[i].thread = "main"
    /\ Len(frames) <= 1

C7_Witness ==
    /\ Len(frames) = 1
    /\ frames[1].pc = "updateGraph"
    /\ wpc = "emit"
    /\ queue # <<>>

\* C8: the emit is never blocked: whatever is still queued for the main
\* thread, a worker at the emit can make it.
C8_FireAndForget ==
    wpc = "emit" => ENABLED WorkerEmit

C8_Witness ==
    /\ wpc = "sleep"
    /\ Len(emitted) = MaxSamples
    /\ Len(queue) = 2 * MaxSamples
    /\ \A v \in Views : handled[v] = <<>>

\* C11: a worker blocked for ever in the metric read stays blocked, and from
\* then on, exit request or not, wait() cannot return and the application is
\* never closed.
C11_BlockedWorkerHangsShutdown ==
    /\ [][wpc = "blocked" => wpc' = "blocked"]_vars
    /\ [](wpc = "blocked" => (app # "closed" /\ ~ENABLED WaitReturn))

C11_Witness ==
    /\ wpc = "blocked"
    /\ app = "waiting"
    /\ interruptionRequested

\* The last element of a non-empty sequence.
Last(seq) == seq[Len(seq)]

\* C12: every sample delivered to a view is appended and then redrawn: the
\* window updateGraph is about to read has the sample as its newest entry,
\* and once the handler is done the plot's newest point is the sample last
\* delivered.
C12_AppendThenRedraw ==
    /\ \A i \in 1..Len(frames) :
          frames[i].pc = "updateGraph" =>
              /\ SlidingWindow_window(xy[frames[i].view]) # <<>>
              /\ Last(SlidingWindow_window(xy[frames[i].view])) = frames[i].sample
    /\ frames = <<>> =>
          \A v \in Views :
              handled[v] # <<>> => (drawn[v] # <<>> /\ Last(drawn[v]) = Last(handled[v]))

\* C13: a view's SlidingWindow and plot change only in that view's own
\* handleMeasurement: handling a sample in one view, compaction included,
\* leaves the other view's buffer, count and plot as they are.
C13_NoCrossViewDependency ==
    [][\A v \in Views :
          (xy'[v] # xy[v] \/ drawn'[v] # drawn[v])
              => (frames # <<>> /\ Last(frames).view = v)]_vars

C13_Witness ==
    /\ xy["mpl"].window_size = 2
    /\ Len(handled["mpl"]) = Len(xy["mpl"].data) + 1
    /\ xy["mpl"].n = 2
    /\ xy["pg"].n = Len(xy["pg"].data)
    /\ frames = <<>>

IsPrefix(a, b) == Len(a) <= Len(b) /\ a = SubSeq(b, 1, Len(a))

\* The number of samples a view's handler has passed to append.
Appended(v) ==
    Len(handled[v])
      - Cardinality({i \in 1..Len(frames) :
                        frames[i].view = v /\ frames[i].pc = "append"})

\* C19: the samples each view has received are a prefix of the samples
\* emitted, in emission order, and views that have appended the same number
\* of samples have equal windows.
C19_NoSampleLostOrReordered ==
    /\ \A v \in Views : IsPrefix(handled[v], emitted)
    /\ \A v1, v2 \in Views :
          Appended(v1) = Appended(v2)
              => SlidingWindow_window(xy[v1]) = SlidingWindow_window(xy[v2])

C19_Witness ==
    /\ xy["mpl"].window_size = 2
    /\ Len(emitted) > Len(xy["mpl"].data)
    /\ \A v \in Views : handled[v] = emitted
    /\ frames = <<>>

\* C20: in the timer demo exactly one of Start and Stop is enabled, the timer
\* is active exactly when Stop is enabled, the counter changes only by +1 on
\* a timeout of the active timer and never in a click, and each timeout
\* shows the new counter value in every connected ViewWidget.
C20_DemoButtonsAndCounter ==
    /\ [](startEnabled # stopEnabled)
    /\ [](timerActive <=> stopEnabled)
    /\ [][counter' # counter
            => /\ counter' = counter + 1
               /\ timerActive
               /\ startEnabled' = startEnabled
               /\ stopEnabled' = stopEnabled
               /\ \A i \in ViewWidgets : viewText'[i] = ToString(counter')]_vars

C20_Witness ==
    /\ counter = 2
    /\ startEnabled
    /\ ~timerActive
    /\ \A i \in ViewWidgets : viewText[i] = "2"

\* C10: a failed metric read ends the worker for good (no retry, no further
\* emit); the main thread still dispatches what is queued; with nothing
\* queued the views' buffers and plots stay as they are; and an exit request
\* made afterwards completes.
C10_ReadFailureEndsWorkerOnly ==
    /\ [][wpc = "failed" => (wpc' = "failed" /\ emitted' = emitted)]_vars
    /\ []((wpc = "failed" /\ app = "exec" /\ frames = <<>> /\ queue # <<>>)
            => ENABLED Dispatch)
    /\ [][(wpc = "failed" /\ frames = <<>> /\ queue = <<>>)
            => (xy' = xy /\ drawn' = drawn)]_vars
    /\ (wpc = "failed" /\ app = "quitting") ~> (app = "closed")

C10_Witness ==
    /\ wpc = "failed"
    /\ app = "closed"
    /\ \A v \in Views : Len(handled[v]) = Len(emitted)
    /\ emitted # <<>>

====
